---------------------------- MODULE Spec2Model ----------------------------
(***************************************************************************)
(* Model of the articles service of src/main.go: an in-memory repository   *)
(* (a Go map from id to Article), a service layered on it, and the HTTP    *)
(* transport that decodes requests and calls the service.                  *)
(*                                                                         *)
(* An Article's Tags field is a Go slice: a reference to a backing array.  *)
(* Copying an Article copies the reference, not the array, so the model    *)
(* keeps a heap of backing arrays and stores, in each Article, the address *)
(* of its array (0 is the nil slice).  Addresses are names: after every    *)
(* operation the live arrays are renumbered in a fixed traversal order and *)
(* the unreachable ones are dropped (garbage collection).                  *)
(***************************************************************************)
EXTENDS Integers, Sequences, FiniteSets, TLC

VARIABLES
  articles,   \* inMemoryRepo.articles: id -> Article (a function on the present ids)
  heap,       \* backing arrays of the Tags slices: address -> sequence of strings
  op,         \* the last operation called
  req,        \* its request: [id |-> the id argument or path id, body |-> <<>> or <<request body>>]
  arg,        \* the caller's Article variable passed by value to the call (<<>> or <<a>>)
  ret,        \* the Articles the call returned to its caller (<<>> is the nil pointer / empty list)
  err,        \* the error the call returned
  calls,      \* the repository methods the call invoked, in order
  resp,       \* the HTTP response written by a handler
  pre,        \* the repository's contents (arrays dereferenced) when the call began
  added,      \* the articles added so far, while only fresh ids were added to the empty repository
  onlyAdds,   \* whether the history so far is only such adds (and reads)
  gor,        \* concurrent requests: per goroutine its position, decoded article and response
  crashed     \* the runtime stopped the process on a detected concurrent map access

vars == <<articles, heap, op, req, arg, ret, err, calls, resp, pre, added, onlyAdds, gor, crashed>>

---------------------------------------------------------------------------
(* Bounds and input sets *)

NumIds == 2
NumProcs == 2

\* "" is the zero value of Article.ID; nothing validates ids, so it is an id like another
IdOrder == SubSeq(<<"", "a1", "a2", "a3">>, 1, NumIds)
Ids == {IdOrder[i] : i \in 1..NumIds}
\* the ids a path segment can carry: the route /{id} matches no empty segment
PathIds == Ids \ {""}

Procs == 1..NumProcs

\* The contents of an article other than its id, arrays written out.
ZeroPayload == [Title |-> "", Tags |-> <<>>, Content |-> "", PublishAt |-> 0]
PayloadSeq == << [Title |-> "T", Tags |-> <<"x", "y">>, Content |-> "C", PublishAt |-> 1],
                [Title |-> "U", Tags |-> <<"y">>, Content |-> "D", PublishAt |-> 2],
                ZeroPayload >>
Payloads == {PayloadSeq[i] : i \in DOMAIN PayloadSeq}

\* An article with its tags written out (what JSON carries, what equality of articles compares).
DeepArticle(id, p) ==
  [ID |-> id, Title |-> p.Title, Tags |-> p.Tags, Content |-> p.Content, PublishAt |-> p.PublishAt]

\* Request bodies.  ok: the body decodes.  A body that does not decode leaves in
\* the target struct what the decoder had filled: nothing for malformed JSON (the zero
\* Article), every well-typed field for a body whose "id" has the wrong JSON type.
Bodies == { [ok |-> TRUE, val |-> DeepArticle(id, p)] : id \in Ids, p \in Payloads }
          \cup { [ok |-> FALSE, val |-> DeepArticle("", p)] : p \in Payloads }

---------------------------------------------------------------------------
(* Errors and HTTP statuses *)

NoError == "<nil>"
ErrArticleNotFound == "article not found"
ErrAlreadyExists == "article already exists"

StatusOK == 200
StatusBadRequest == 400
StatusInternalServerError == 500

---------------------------------------------------------------------------
(* Articles and the heap of tag arrays *)

\* type Article struct: Tags holds the address of the backing array, 0 for nil.
Article(id, title, tags, content, publishAt) ==
  [ID |-> id, Title |-> title, Tags |-> tags, Content |-> content, PublishAt |-> publishAt]

\* var article Article
ZeroArticle == Article("", "", 0, "", 0)

\* The article a dereferenced: its fields with the tags read through the heap h.
Deep(a, h) ==
  [ID |-> a.ID, Title |-> a.Title, Tags |-> IF a.Tags = 0 THEN <<>> ELSE h[a.Tags],
   Content |-> a.Content, PublishAt |-> a.PublishAt]

\* The repository's contents with every article dereferenced.
View(arts, h) == [k \in DOMAIN arts |-> Deep(arts[k], h)]

\* Building an Article value from written-out contents d allocates its tag array.
NewArticle(d, h) ==
  IF d.Tags = <<>>
    THEN [article |-> Article(d.ID, d.Title, 0, d.Content, d.PublishAt), heap |-> h]
    ELSE [article |-> Article(d.ID, d.Title, Len(h) + 1, d.Content, d.PublishAt),
          heap |-> Append(h, d.Tags)]

\* The Articles held by the goroutines, in goroutine order.
RECURSIVE GorArticles(_, _)
GorArticles(g, n) == IF n = 0 THEN <<>> ELSE GorArticles(g, n - 1) \o g[n].article

\* The addresses of refs in the order of their first occurrence, nil (0) left out.
RECURSIVE FirstOccurrences(_, _, _)
FirstOccurrences(refs, i, acc) ==
  IF i > Len(refs) THEN acc
  ELSE IF refs[i] = 0 \/ \E k \in DOMAIN acc : acc[k] = refs[i]
    THEN FirstOccurrences(refs, i + 1, acc)
    ELSE FirstOccurrences(refs, i + 1, Append(acc, refs[i]))

\* Garbage collection and renaming of addresses: the arrays reachable from the
\* repository, the caller's variables and the goroutines, numbered in that order.
Normalize(arts, h, a, r, g) ==
  LET stored == [i \in 1..Len(IdOrder) |->
                   IF IdOrder[i] \in DOMAIN arts THEN arts[IdOrder[i]].Tags ELSE 0]
      held == a \o r \o GorArticles(g, NumProcs)
      live == FirstOccurrences(stored \o [i \in 1..Len(held) |-> held[i].Tags], 1, <<>>)
      rank == [p \in {live[k] : k \in DOMAIN live} \cup {0} |->
                 IF p = 0 THEN 0 ELSE CHOOSE k \in DOMAIN live : live[k] = p]
      Rename(x) == [x EXCEPT !.Tags = rank[@]]
  IN [articles |-> [k \in DOMAIN arts |-> Rename(arts[k])],
      heap |-> [n \in DOMAIN live |-> h[live[n]]],
      arg |-> [i \in 1..Len(a) |-> Rename(a[i])],
      ret |-> [i \in 1..Len(r) |-> Rename(r[i])],
      gor |-> [p \in DOMAIN g |-> [g[p] EXCEPT !.article = [i \in 1..Len(@) |-> Rename(@[i])]]]]

---------------------------------------------------------------------------
(* Repository: inMemoryRepo.  Each method is given the map and returns the   *)
(* map it leaves, its results and the repository methods invoked.            *)

\* Mutant: the insert keeps an entry that is already there.
inMemoryRepo_InsertArticle_IfAbsent(arts, article) ==
  [articles |-> [k \in DOMAIN arts \cup {article.ID} |->
                   IF k \in DOMAIN arts THEN arts[k] ELSE article],
   val |-> <<>>, err |-> NoError, calls |-> <<"InsertArticle">>]

\* Mutant: the stored copy is built field by field and the id is left out.
inMemoryRepo_InsertArticle_NoID(arts, article) ==
  [articles |-> [k \in DOMAIN arts \cup {article.ID} |->
                   IF k = article.ID THEN [article EXCEPT !.ID = ""] ELSE arts[k]],
   val |-> <<>>, err |-> NoError, calls |-> <<"InsertArticle">>]

\* Mutant: the stored copy is built field by field and the tags are left out.
inMemoryRepo_InsertArticle_NoTags(arts, article) ==
  [articles |-> [k \in DOMAIN arts \cup {article.ID} |->
                   IF k = article.ID THEN [article EXCEPT !.Tags = 0] ELSE arts[k]],
   val |-> <<>>, err |-> NoError, calls |-> <<"InsertArticle">>]

\* repo.articles[article.ID] = article; return nil
inMemoryRepo_InsertArticle(arts, article) ==
  [articles |-> [k \in DOMAIN arts \cup {article.ID} |->
                   IF k = article.ID THEN article ELSE arts[k]],
   val |-> <<>>, err |-> NoError, calls |-> <<"InsertArticle">>]

\* Mutant: the found check is left out, so an update of an absent id inserts.
inMemoryRepo_UpdateArticle_Upsert(arts, article) ==
  [articles |-> [k \in DOMAIN arts \cup {article.ID} |->
                   IF k = article.ID THEN article ELSE arts[k]],
   val |-> <<>>, err |-> NoError, calls |-> <<"UpdateArticle">>]

inMemoryRepo_UpdateArticle(arts, article) ==
  IF article.ID \notin DOMAIN arts
    THEN [articles |-> arts, val |-> <<>>, err |-> ErrArticleNotFound,
          calls |-> <<"UpdateArticle">>]
    ELSE [articles |-> [arts EXCEPT ![article.ID] = article],
          val |-> <<>>, err |-> NoError, calls |-> <<"UpdateArticle">>]

\* Mutant: deleting an absent id is reported as an error.
inMemoryRepo_DeleteArticle_NotFound(arts, id) ==
  [articles |-> [k \in DOMAIN arts \ {id} |-> arts[k]],
   val |-> <<>>, err |-> IF id \in DOMAIN arts THEN NoError ELSE ErrArticleNotFound,
   calls |-> <<"DeleteArticle">>]

\* Mutant: the delete replaces the map by an empty one.
inMemoryRepo_DeleteArticle_Clears(arts, id) ==
  [articles |-> [k \in {} |-> arts[k]],
   val |-> <<>>, err |-> NoError, calls |-> <<"DeleteArticle">>]

\* delete(repo.articles, id); return nil
inMemoryRepo_DeleteArticle(arts, id) ==
  [articles |-> [k \in DOMAIN arts \ {id} |-> arts[k]],
   val |-> <<>>, err |-> NoError, calls |-> <<"DeleteArticle">>]

\* Mutant: the lookup takes the entry out of the map.
inMemoryRepo_ArticleByID_Takes(arts, id) ==
  IF id \notin DOMAIN arts
    THEN [articles |-> arts, val |-> <<>>, err |-> ErrArticleNotFound,
          calls |-> <<"ArticleByID">>]
    ELSE [articles |-> [k \in DOMAIN arts \ {id} |-> arts[k]], val |-> <<arts[id]>>,
          err |-> NoError, calls |-> <<"ArticleByID">>]

\* returns a pointer to a copy of the stored struct, or nil and ErrArticleNotFound
inMemoryRepo_ArticleByID(arts, id) ==
  IF id \notin DOMAIN arts
    THEN [articles |-> arts, val |-> <<>>, err |-> ErrArticleNotFound,
          calls |-> <<"ArticleByID">>]
    ELSE [articles |-> arts, val |-> <<arts[id]>>, err |-> NoError,
          calls |-> <<"ArticleByID">>]

\* The orders in which a range over the map may visit its keys.
MapOrders(arts) ==
  {s \in [1..Cardinality(DOMAIN arts) -> DOMAIN arts] :
     \A i, j \in DOMAIN s : i # j => s[i] # s[j]}

\* Mutant: the loop stops one entry early.
inMemoryRepo_AllArticles_DropsLast(arts) ==
  { [articles |-> arts, val |-> [i \in 1..(Len(s) - 1) |-> arts[s[i]]], err |-> NoError,
     calls |-> <<"AllArticles">>] : s \in MapOrders(arts) }

\* Appends a copy of every stored struct, in the map's iteration order: the set
\* of the results the call may return.
inMemoryRepo_AllArticles(arts) ==
  { [articles |-> arts, val |-> [i \in DOMAIN s |-> arts[s[i]]], err |-> NoError,
     calls |-> <<"AllArticles">>] : s \in MapOrders(arts) }

---------------------------------------------------------------------------
(* Service: articleSvc *)

\* Mutant: the existence check is left out.
articleSvc_AddArticle_NoCheck(arts, article) ==
  LET f == inMemoryRepo_ArticleByID(arts, article.ID)
      i == inMemoryRepo_InsertArticle(f.articles, article)
  IN [i EXCEPT !.calls = f.calls \o @]

articleSvc_AddArticle(arts, article) ==
  LET f == inMemoryRepo_ArticleByID(arts, article.ID) IN
  IF f.err = NoError /\ f.val # <<>>
    THEN [articles |-> f.articles, val |-> <<>>, err |-> ErrAlreadyExists, calls |-> f.calls]
    ELSE LET i == inMemoryRepo_InsertArticle(f.articles, article)
         IN [i EXCEPT !.calls = f.calls \o @]

articleSvc_UpdateArticle(arts, article) == inMemoryRepo_UpdateArticle(arts, article)

articleSvc_Article(arts, id) == inMemoryRepo_ArticleByID(arts, id)

\* Mutant: the service refuses to delete an id that is not stored.
articleSvc_DeleteArticle_NotFound(arts, id) ==
  IF id \in DOMAIN arts
    THEN inMemoryRepo_DeleteArticle(arts, id)
    ELSE [articles |-> arts, val |-> <<>>, err |-> ErrArticleNotFound, calls |-> <<>>]

articleSvc_DeleteArticle(arts, id) == inMemoryRepo_DeleteArticle(arts, id)

articleSvc_Articles(arts) == inMemoryRepo_AllArticles(arts)

---------------------------------------------------------------------------
(* Transport: articlesHttpTransport and the http.ResponseWriter it writes to *)

\* A response nothing was written to yet.
NewResponse == [status |-> 0, text |-> <<>>, json |-> <<>>]

\* w.WriteHeader(code): only the first call sets the status.
WriteHeader(w, code) == IF w.status = 0 THEN [w EXCEPT !.status = code] ELSE w

\* io.WriteString(w, s): writing a body before any WriteHeader sends 200.
WriteString(w, s) == [WriteHeader(w, StatusOK) EXCEPT !.text = Append(@, s)]

\* json.NewEncoder(w).Encode(v)
Encode(w, v) == [WriteHeader(w, StatusOK) EXCEPT !.json = v]

\* The handler returned: a response never written to is sent as 200 with no body.
Finish(w) == WriteHeader(w, StatusOK)

\* json.NewDecoder(r.Body).Decode(&article) and the handler's reply to its error
Decode(body, h) ==
  LET n == NewArticle(body.val, h) IN
  [article |-> n.article, heap |-> n.heap,
   resp |-> IF body.ok THEN NewResponse
            ELSE WriteString(WriteHeader(NewResponse, StatusBadRequest), "bad request")]

\* Mutant: every service result is answered 200 "ok".
Reply_AlwaysOK(w, r) == WriteString(WriteHeader(w, StatusOK), "ok")

\* The reply of the two PUT handlers to the service's result r.
Reply(w, r) ==
  IF r.err # NoError
    THEN WriteString(WriteHeader(w, StatusInternalServerError), r.err)
    ELSE WriteString(WriteHeader(w, StatusOK), "ok")

\* Mutant: the handler returns after replying 400 to a body that does not decode.
articlesHttpTransport_addArticle_Returns(arts, h, body) ==
  LET d == Decode(body, h)
      r == articleSvc_AddArticle(arts, d.article)
  IN IF body.ok
       THEN [articles |-> r.articles, heap |-> d.heap, article |-> d.article, err |-> r.err,
             calls |-> r.calls, resp |-> Finish(Reply(d.resp, r))]
       ELSE [articles |-> arts, heap |-> d.heap, article |-> d.article, err |-> NoError,
             calls |-> <<>>, resp |-> Finish(d.resp)]

articlesHttpTransport_addArticle(arts, h, body) ==
  LET d == Decode(body, h)
      r == articleSvc_AddArticle(arts, d.article)
  IN [articles |-> r.articles, heap |-> d.heap, article |-> d.article, err |-> r.err,
      calls |-> r.calls, resp |-> Finish(Reply(d.resp, r))]

\* Mutant: the id of the decoded body is not overwritten from the path.
articlesHttpTransport_updateArticle_BodyID(arts, h, id, body) ==
  LET d == Decode(body, h)
      r == articleSvc_UpdateArticle(arts, d.article)
  IN [articles |-> r.articles, heap |-> d.heap, article |-> d.article, err |-> r.err,
      calls |-> r.calls, resp |-> Finish(Reply(d.resp, r))]

articlesHttpTransport_updateArticle(arts, h, id, body) ==
  LET d == Decode(body, h)
      article == [d.article EXCEPT !.ID = id]
      r == articleSvc_UpdateArticle(arts, article)
  IN [articles |-> r.articles, heap |-> d.heap, article |-> article, err |-> r.err,
      calls |-> r.calls, resp |-> Finish(Reply(d.resp, r))]

\* the set of the results the handler may produce, one per iteration order
articlesHttpTransport_articles(arts, h) ==
  { [articles |-> r.articles, heap |-> h, err |-> r.err, calls |-> r.calls,
     resp |-> Finish(IF r.err # NoError
                       THEN WriteString(WriteHeader(NewResponse, StatusInternalServerError), r.err)
                       ELSE Encode(NewResponse, [i \in DOMAIN r.val |-> Deep(r.val[i], h)]))]
    : r \in articleSvc_Articles(arts) }

\* func (t *articlesHttpTransport) articleByID(w, r) { }
articlesHttpTransport_articleByID(arts, h, id) ==
  [articles |-> arts, heap |-> h, err |-> NoError, calls |-> <<>>, resp |-> Finish(NewResponse)]

\* func (t *articlesHttpTransport) deleteArticle(w, r) { }
articlesHttpTransport_deleteArticle(arts, h, id) ==
  [articles |-> arts, heap |-> h, err |-> NoError, calls |-> <<>>, resp |-> Finish(NewResponse)]

---------------------------------------------------------------------------
(* State machine: sequential calls *)

IdleGor ==
  [p \in Procs |-> [pc |-> "idle", article |-> <<>>, absent |-> FALSE, err |-> NoError,
                    resp |-> NewResponse]]

Init ==
  /\ articles = <<>>
  /\ heap = <<>>
  /\ op = "main"
  /\ req = [id |-> "", body |-> <<>>]
  /\ arg = <<>>
  /\ ret = <<>>
  /\ err = NoError
  /\ calls = <<>>
  /\ resp = NewResponse
  /\ pre = <<>>
  /\ added = {}
  /\ onlyAdds = TRUE
  /\ gor = IdleGor
  /\ crashed = FALSE

Writes == {"InsertArticle", "UpdateArticle", "DeleteArticle"}

\* The state a call leaves: o the operation, q its request, arts and h the map and
\* heap it leaves, a the caller's argument, r the returned articles, e the error,
\* c the repository methods invoked, w the response.
Commit(o, q, arts, h, a, r, e, c, w) ==
  LET wrote == \E i \in DOMAIN c : c[i] \in Writes
      isAdd == /\ \E i \in DOMAIN c : c[i] = "InsertArticle"
               /\ a # <<>>
               /\ a[1].ID \notin DOMAIN articles
  IN \E n \in {Normalize(arts, h, a, r, gor)} :
     /\ articles' = n.articles
     /\ heap' = n.heap
     /\ arg' = n.arg
     /\ ret' = n.ret
     /\ op' = o
     /\ req' = q
     /\ err' = e
     /\ calls' = c
     /\ resp' = w
     /\ pre' = View(articles, heap)
     /\ onlyAdds' = IF wrote THEN onlyAdds /\ isAdd ELSE onlyAdds
     /\ added' = IF ~wrote THEN added
                 ELSE IF onlyAdds /\ isAdd THEN added \cup {Deep(a[1], h)} ELSE {}
     /\ UNCHANGED <<gor, crashed>>

\* The state a call of a repository or service method leaves: r is the method's
\* result, a the Article the caller passed (<<>> when the method takes none).
Returned(o, id, a, h, r) ==
  Commit(o, [id |-> id, body |-> <<>>], r.articles, h, a, r.val, r.err, r.calls, NewResponse)

RepoInsertArticle ==
  \E id \in Ids, p \in Payloads :
  \E n \in {NewArticle(DeepArticle(id, p), heap)} :
  \E r \in {inMemoryRepo_InsertArticle(articles, n.article)} :
    Returned("repo.InsertArticle", id, <<n.article>>, n.heap, r)

RepoUpdateArticle ==
  \E id \in Ids, p \in Payloads :
  \E n \in {NewArticle(DeepArticle(id, p), heap)} :
  \E r \in {inMemoryRepo_UpdateArticle(articles, n.article)} :
    Returned("repo.UpdateArticle", id, <<n.article>>, n.heap, r)

RepoDeleteArticle ==
  \E id \in Ids :
  \E r \in {inMemoryRepo_DeleteArticle(articles, id)} :
    Returned("repo.DeleteArticle", id, <<>>, heap, r)

RepoArticleByID ==
  \E id \in Ids :
  \E r \in {inMemoryRepo_ArticleByID(articles, id)} :
    Returned("repo.ArticleByID", id, <<>>, heap, r)

RepoAllArticles ==
  \E r \in inMemoryRepo_AllArticles(articles) :
    Returned("repo.AllArticles", "", <<>>, heap, r)

SvcAddArticle ==
  \E id \in Ids, p \in Payloads :
  \E n \in {NewArticle(DeepArticle(id, p), heap)} :
  \E r \in {articleSvc_AddArticle(articles, n.article)} :
    Returned("svc.AddArticle", id, <<n.article>>, n.heap, r)

SvcUpdateArticle ==
  \E id \in Ids, p \in Payloads :
  \E n \in {NewArticle(DeepArticle(id, p), heap)} :
  \E r \in {articleSvc_UpdateArticle(articles, n.article)} :
    Returned("svc.UpdateArticle", id, <<n.article>>, n.heap, r)

SvcDeleteArticle ==
  \E id \in Ids :
  \E r \in {articleSvc_DeleteArticle(articles, id)} :
    Returned("svc.DeleteArticle", id, <<>>, heap, r)

SvcArticle ==
  \E id \in Ids :
  \E r \in {articleSvc_Article(articles, id)} :
    Returned("svc.Article", id, <<>>, heap, r)

SvcArticles ==
  \E r \in articleSvc_Articles(articles) :
    Returned("svc.Articles", "", <<>>, heap, r)

\* PUT /articles
HttpAddArticle ==
  \E body \in Bodies :
    \E r \in {articlesHttpTransport_addArticle(articles, heap, body)} :
       Commit("PUT /articles", [id |-> "", body |-> <<body>>], r.articles, r.heap,
              <<r.article>>, <<>>, r.err, r.calls, r.resp)

\* PUT /articles/{id}
HttpUpdateArticle ==
  \E id \in PathIds, body \in Bodies :
    \E r \in {articlesHttpTransport_updateArticle(articles, heap, id, body)} :
       Commit("PUT /articles/{id}", [id |-> id, body |-> <<body>>], r.articles, r.heap,
              <<r.article>>, <<>>, r.err, r.calls, r.resp)

\* GET /articles
HttpArticles ==
  \E r \in articlesHttpTransport_articles(articles, heap) :
    Commit("GET /articles", [id |-> "", body |-> <<>>], r.articles, r.heap,
           <<>>, <<>>, r.err, r.calls, r.resp)

\* GET /articles/{id}
HttpArticleByID ==
  \E id \in PathIds :
    \E r \in {articlesHttpTransport_articleByID(articles, heap, id)} :
       Commit("GET /articles/{id}", [id |-> id, body |-> <<>>], r.articles, r.heap,
              <<>>, <<>>, r.err, r.calls, r.resp)

\* DELETE /articles/{id}
HttpDeleteArticle ==
  \E id \in PathIds :
    \E r \in {articlesHttpTransport_deleteArticle(articles, heap, id)} :
       Commit("DELETE /articles/{id}", [id |-> id, body |-> <<>>], r.articles, r.heap,
              <<>>, <<>>, r.err, r.calls, r.resp)

Next ==
  \/ RepoInsertArticle
  \/ RepoUpdateArticle
  \/ RepoDeleteArticle
  \/ RepoArticleByID
  \/ RepoAllArticles
  \/ SvcAddArticle
  \/ SvcUpdateArticle
  \/ SvcDeleteArticle
  \/ SvcArticle
  \/ SvcArticles
  \/ HttpAddArticle
  \/ HttpUpdateArticle
  \/ HttpArticles
  \/ HttpArticleByID
  \/ HttpDeleteArticle

Spec == Init /\ [][Next]_vars

---------------------------------------------------------------------------
(* State machine: the caller of the repository or service keeps the Article   *)
(* values it passed and received, and writes to them                          *)

DirectCalls ==
  {"repo.InsertArticle", "repo.UpdateArticle", "repo.DeleteArticle", "repo.ArticleByID",
   "repo.AllArticles", "svc.AddArticle", "svc.UpdateArticle", "svc.DeleteArticle",
   "svc.Article", "svc.Articles"}

\* The state a write of the caller to its own variables leaves.
CallerWrote(h, a, r) ==
  /\ heap' = h
  /\ arg' = a
  /\ ret' = r
  /\ op' = "caller.write"
  /\ pre' = View(articles, heap)
  /\ UNCHANGED <<articles, req, err, calls, resp, added, onlyAdds, gor, crashed>>

\* a.Tags[k] = "z" on the article the caller passed, or on one it was returned:
\* a write through the slice to its backing array.
CallerWritesTag ==
  /\ op \in DirectCalls \cup {"caller.write"}
  /\ \E x \in {arg[i] : i \in DOMAIN arg} \cup {ret[i] : i \in DOMAIN ret} :
       /\ x.Tags # 0
       /\ \E k \in DOMAIN heap[x.Tags] :
            /\ heap[x.Tags][k] # "z"
            /\ CallerWrote([heap EXCEPT ![x.Tags][k] = "z"], arg, ret)

\* a.Title = "z" on the article the caller passed, or on one it was returned:
\* a write to the caller's own struct.
CallerWritesField ==
  /\ op \in DirectCalls \cup {"caller.write"}
  /\ \/ \E i \in DOMAIN arg :
          /\ arg[i].Title # "z"
          /\ CallerWrote(heap, [arg EXCEPT ![i].Title = "z"], ret)
     \/ \E i \in DOMAIN ret :
          /\ ret[i].Title # "z"
          /\ CallerWrote(heap, arg, [ret EXCEPT ![i].Title = "z"])

NextAlias ==
  \/ Next
  \/ CallerWritesTag
  \/ CallerWritesField

SpecAlias == Init /\ [][NextAlias]_vars

---------------------------------------------------------------------------
(* State machine: concurrent PUT /articles requests.  The server runs each     *)
(* request's handler on a goroutine of its own; the handlers share the         *)
(* repository's map without synchronization.  A handler's accesses to the map  *)
(* (the read of ArticleByID, the write of InsertArticle) are the steps that    *)
(* interleave.  Two accesses to the map of which one is a write, with nothing  *)
(* ordering them, are a data race: they may take effect one after the other,   *)
(* in either order, or the runtime detects them and stops the process.         *)

\* The state a step of a goroutine leaves.
Stepped(o, arts, h, a, g) ==
  \E n \in {Normalize(arts, h, a, <<>>, g)} :
    /\ articles' = n.articles
    /\ heap' = n.heap
    /\ arg' = n.arg
    /\ ret' = <<>>
    /\ gor' = n.gor
    /\ op' = o
    /\ UNCHANGED <<req, err, calls, resp, pre, added, onlyAdds, crashed>>

\* addArticle, lines 137-145: the request is decoded.
GoDecode(p) ==
  /\ ~crashed
  /\ gor[p].pc = "idle"
  /\ \E body \in Bodies :
     \E d \in {Decode(body, heap)} :
       Stepped("go.Decode", articles, d.heap, <<>>,
               [gor EXCEPT ![p] = [@ EXCEPT !.pc = "check", !.article = <<d.article>>,
                                            !.resp = d.resp]])

\* AddArticle, line 96: the existence check reads the map.
GoCheck(p) ==
  /\ ~crashed
  /\ gor[p].pc = "check"
  /\ \E f \in {inMemoryRepo_ArticleByID(articles, gor[p].article[1].ID)} :
       IF f.err = NoError /\ f.val # <<>>
         THEN Stepped("go.ArticleByID", articles, heap, <<>>,
                      [gor EXCEPT ![p] = [@ EXCEPT !.pc = "done", !.absent = FALSE,
                         !.err = ErrAlreadyExists,
                         !.resp = Finish(Reply(@, [err |-> ErrAlreadyExists]))]])
         ELSE Stepped("go.ArticleByID", articles, heap, <<>>,
                      [gor EXCEPT ![p] = [@ EXCEPT !.pc = "insert", !.absent = TRUE]])

\* AddArticle, line 100: the insert writes the map; the handler replies.
GoInsert(p) ==
  /\ ~crashed
  /\ gor[p].pc = "insert"
  /\ \E i \in {inMemoryRepo_InsertArticle(articles, gor[p].article[1])} :
       Stepped("go.InsertArticle", i.articles, heap, gor[p].article,
               [gor EXCEPT ![p] = [@ EXCEPT !.pc = "done", !.err = i.err,
                                            !.resp = Finish(Reply(@, i))]])

\* A write of the map and another access to it are about to happen with nothing
\* between them: the runtime may report the concurrent map access and exit.
GoFatal ==
  /\ ~crashed
  /\ \E p, q \in Procs :
       /\ p # q
       /\ gor[p].pc = "insert"
       /\ gor[q].pc \in {"check", "insert"}
  /\ crashed' = TRUE
  /\ op' = "fatal error: concurrent map access"
  /\ UNCHANGED <<articles, heap, req, arg, ret, err, calls, resp, pre, added, onlyAdds, gor>>

NextConc ==
  \/ \E p \in Procs : GoDecode(p)
  \/ \E p \in Procs : GoCheck(p)
  \/ \E p \in Procs : GoInsert(p)
  \/ GoFatal

SpecConc == Init /\ [][NextConc]_vars

---------------------------------------------------------------------------
(* Properties of the sequential calls *)

\* The article the last call was given, and the repository's contents now.
Given == arg[1]
Now == View(articles, heap)

\* C1: AddArticle with an article whose id is already in the repository fails with
\* the 'already exists' error, does not invoke InsertArticle, and leaves the article
\* stored under that id as it was before the call.
C1_AddExistingFails ==
  (op = "svc.AddArticle" /\ Given.ID \in DOMAIN pre)
    => /\ err = ErrAlreadyExists
       /\ \A i \in DOMAIN calls : calls[i] # "InsertArticle"
       /\ Given.ID \in DOMAIN articles
       /\ Now[Given.ID] = pre[Given.ID]

\* An AddArticle was refused although the article given differs from the stored one.
C1_Witness ==
  /\ op = "svc.AddArticle"
  /\ Given.ID \in DOMAIN pre
  /\ err = ErrAlreadyExists
  /\ Deep(Given, heap) # pre[Given.ID]

\* C2: UpdateArticle (repository and service) with an id that is not present returns
\* ErrArticleNotFound and leaves the whole map unchanged; with an id that is present
\* it returns no error and the entry at that id equals the given article.
C2_UpdateNotFoundOrOverwrite ==
  (op \in {"repo.UpdateArticle", "svc.UpdateArticle"})
    => IF Given.ID \notin DOMAIN pre
         THEN err = ErrArticleNotFound /\ Now = pre
         ELSE /\ err = NoError
              /\ Given.ID \in DOMAIN articles
              /\ Now[Given.ID] = Deep(Given, heap)

\* An update of an absent id was refused while the repository holds other articles.
C2_Witness ==
  /\ op = "svc.UpdateArticle"
  /\ Given.ID \notin DOMAIN pre
  /\ DOMAIN pre # {}
  /\ err = ErrArticleNotFound

\* C3: DeleteArticle(id) always returns no error; if id is absent the repository is
\* unchanged; if id is present then afterwards ArticleByID(id) fails with NotFound
\* and AllArticles contains no article with that id.
C3_DeleteNeverFails ==
  (op \in {"repo.DeleteArticle", "svc.DeleteArticle"})
    => /\ err = NoError
       /\ req.id \notin DOMAIN pre => Now = pre
       /\ req.id \in DOMAIN pre =>
            /\ inMemoryRepo_ArticleByID(articles, req.id).err = ErrArticleNotFound
            /\ inMemoryRepo_ArticleByID(articles, req.id).val = <<>>
            /\ \A r \in inMemoryRepo_AllArticles(articles) :
                 \A i \in DOMAIN r.val : r.val[i].ID # req.id

\* A present id was deleted from a repository that keeps another article.
C3_Witness ==
  /\ op = "svc.DeleteArticle"
  /\ req.id \in DOMAIN pre
  /\ DOMAIN articles # {}

\* C4: for an article whose id is not in the repository, AddArticle succeeds and an
\* immediately following Article(id) / ArticleByID(id) returns, without error, an
\* article equal to it in every field.
C4_AddThenFetch ==
  (op = "svc.AddArticle" /\ Given.ID \notin DOMAIN pre)
    => /\ err = NoError
       /\ \A f \in {articleSvc_Article(articles, Given.ID),
                    inMemoryRepo_ArticleByID(articles, Given.ID)} :
            /\ f.err = NoError
            /\ f.val # <<>>
            /\ Deep(f.val[1], heap) = Deep(Given, heap)

\* An article with tags was added under a fresh id beside the articles already stored.
C4_Witness ==
  /\ op = "svc.AddArticle"
  /\ Given.ID \notin DOMAIN pre
  /\ DOMAIN pre # {}
  /\ err = NoError
  /\ Given.Tags # 0

\* C5: starting from the empty repository, after adding N articles with pairwise
\* distinct ids in any order, AllArticles returns exactly N articles, and they are,
\* as a set, the articles that were added.
C5_AllArticlesAfterAdds ==
  (op \in {"repo.AllArticles", "svc.Articles"} /\ onlyAdds)
    => /\ err = NoError
       /\ Len(ret) = Cardinality(added)
       /\ {Deep(ret[i], heap) : i \in DOMAIN ret} = added

\* The articles were listed after one was added under every id.
C5_Witness ==
  /\ op = "repo.AllArticles"
  /\ onlyAdds
  /\ {x.ID : x \in added} = Ids
  /\ Len(ret) = NumIds

\* C6: in every reachable state there is one article per id: the article stored
\* under key k has its id field equal to k.
C6_KeyIsID == \A k \in DOMAIN articles : articles[k].ID = k

\* An update went through while every id is stored.
C6_Witness ==
  /\ op = "repo.UpdateArticle"
  /\ err = NoError
  /\ DOMAIN articles = Ids

\* C7: PUT /articles/{id} calls the service with the id taken from the path: for an
\* existing path id p and a decoded body with any id b, afterwards the entry at p
\* has id p and the body's title, tags, content and publishAt, and when b differs
\* from p no entry at b is created or modified.
C7_PathIdWins ==
  (op = "PUT /articles/{id}" /\ req.body[1].ok /\ req.id \in DOMAIN pre)
    => LET p == req.id
           body == req.body[1].val
       IN /\ Given.ID = p
          /\ calls = <<"UpdateArticle">>
          /\ p \in DOMAIN articles
          /\ Now[p] = [body EXCEPT !.ID = p]
          /\ body.ID # p =>
               /\ body.ID \in DOMAIN articles <=> body.ID \in DOMAIN pre
               /\ body.ID \in DOMAIN pre => Now[body.ID] = pre[body.ID]

\* An existing article was replaced by a body that names another stored id.
C7_Witness ==
  /\ op = "PUT /articles/{id}"
  /\ req.body[1].ok
  /\ req.id \in DOMAIN pre
  /\ req.body[1].val.ID # req.id
  /\ req.body[1].val.ID \in DOMAIN pre
  /\ req.body[1].val.Tags # <<>>
  /\ Now[req.id] # pre[req.id]
  /\ err = NoError

---------------------------------------------------------------------------
(* Properties of the caller's writes, of the handlers without a body, and of   *)
(* concurrent requests                                                         *)

\* C8: callers receive copies, not shared references: a write of the caller to an
\* article it was returned by ArticleByID or AllArticles (an element of its tags
\* included), or to an article it had passed to InsertArticle/UpdateArticle, leaves
\* the articles stored in the repository unchanged.
C8_CallersHoldCopies == (op = "caller.write") => Now = pre

\* C9: for an article stored under id x, DELETE /articles/x responds 200 and removes
\* x from the store (so that a following GET /articles/x responds 404); GET
\* /articles/{id} responds 200 with the stored article when the id is present and
\* 404 when it is not.
C9_HttpDeleteAndGet ==
  /\ (op = "DELETE /articles/{id}" /\ req.id \in DOMAIN pre)
       => resp.status = StatusOK /\ req.id \notin DOMAIN articles
  /\ (op = "GET /articles/{id}")
       => IF req.id \in DOMAIN pre
            THEN resp.status = StatusOK /\ resp.json = <<pre[req.id]>>
            ELSE resp.status = 404

\* C10: the existence check and the insert of AddArticle are two steps: every
\* concurrent call whose check found its id absent goes on to insert and returns
\* success, whatever was inserted under that id in between, and each insert
\* overwrites what is stored (the last write wins).
C10_CheckThenInsertNotAtomic ==
  /\ \A p \in Procs :
       (gor[p].pc = "done" /\ gor[p].absent)
         => /\ gor[p].err = NoError
            /\ gor[p].resp.text[Len(gor[p].resp.text)] = "ok"
  /\ (op = "go.InsertArticle")
       => Given.ID \in DOMAIN articles /\ Now[Given.ID] = Deep(Given, heap)

\* Two concurrent PUT /articles with the same id, absent before, and different
\* contents both passed the existence check, both inserted and both were answered
\* 200 "ok"; the article stored is the one inserted last.
C10_Witness ==
  /\ ~crashed
  /\ op = "go.InsertArticle"
  /\ \E p, q \in Procs :
       /\ p # q
       /\ gor[p].pc = "done" /\ gor[q].pc = "done"
       /\ gor[p].absent /\ gor[q].absent
       /\ gor[p].err = NoError /\ gor[q].err = NoError
       /\ gor[p].resp = [status |-> StatusOK, text |-> <<"ok">>, json |-> <<>>]
       /\ gor[q].resp = [status |-> StatusOK, text |-> <<"ok">>, json |-> <<>>]
       /\ gor[p].article[1].ID = gor[q].article[1].ID
       /\ Deep(gor[p].article[1], heap) # Deep(gor[q].article[1], heap)
       /\ Now[gor[q].article[1].ID] = Deep(gor[q].article[1], heap)
       /\ Given = gor[q].article[1]

---------------------------------------------------------------------------
(* Properties of the PUT handlers' replies *)

PutHandlers == {"PUT /articles", "PUT /articles/{id}"}

\* The body of the last request, and the Article a PUT handler passes to the
\* service for it: what Decode left in the struct, the id set from the path by
\* updateArticle.
Body == req.body[1]
Passed == IF op = "PUT /articles/{id}" THEN [Body.val EXCEPT !.ID = req.id] ELSE Body.val

\* C11 as stated: when the body cannot be decoded, addArticle and updateArticle
\* write a 400 response and still call the service with a zero-valued Article
\* (zero-valued except for the path id in updateArticle), so that PUT /articles/{id}
\* for an existing id overwrites the article's title, tags, content and publishAt
\* with zero values.
C11_ZeroArticleAfterDecodeError ==
  (op \in PutHandlers /\ ~Body.ok)
    => /\ resp.status = StatusBadRequest
       /\ calls # <<>>
       /\ Deep(Given, heap) = DeepArticle(Given.ID, ZeroPayload)
       /\ (op = "PUT /articles/{id}" /\ req.id \in DOMAIN pre)
            => Now[req.id] = DeepArticle(req.id, ZeroPayload)

\* C11, amended: when the body cannot be decoded, addArticle and updateArticle
\* write 400 "bad request" and still call the service, with the Article as the
\* decoder left it (the id set from the path in updateArticle): the zero-valued
\* Article when nothing was decoded.  PUT /articles then adds that Article under
\* its id when the id is absent, and PUT /articles/{id} for an existing id
\* overwrites the stored article with it.
C11_DecodeErrorFallsThrough ==
  (op \in PutHandlers /\ ~Body.ok)
    => /\ resp.status = StatusBadRequest
       /\ resp.text[1] = "bad request"
       /\ calls # <<>>
       /\ calls[1] = (IF op = "PUT /articles" THEN "ArticleByID" ELSE "UpdateArticle")
       /\ Deep(Given, heap) = Passed
       /\ (Body.val = DeepArticle("", ZeroPayload))
            => Deep(Given, heap) = DeepArticle(Given.ID, ZeroPayload)
       /\ (op = "PUT /articles" /\ Passed.ID \notin DOMAIN pre)
            => err = NoError /\ Passed.ID \in DOMAIN articles /\ Now[Passed.ID] = Passed
       /\ (op = "PUT /articles/{id}" /\ req.id \in DOMAIN pre)
            => err = NoError /\ req.id \in DOMAIN articles /\ Now[req.id] = Passed

\* A body that is no JSON was sent to PUT /articles/{id} for a stored article with
\* tags: the reply is 400 and the article is now zero-valued but for its id.
C11_Witness ==
  /\ op = "PUT /articles/{id}"
  /\ ~Body.ok
  /\ Body.val = DeepArticle("", ZeroPayload)
  /\ req.id \in DOMAIN pre
  /\ pre[req.id].Tags # <<>>
  /\ resp.status = StatusBadRequest
  /\ Now[req.id] = DeepArticle(req.id, ZeroPayload)

\* C12: for a decodable body, the PUT handlers respond 200 "ok" exactly when the
\* service returns no error and 500 with the error text when it returns an error:
\* PUT /articles with an id in the store yields 500 (already exists), PUT
\* /articles/{id} with an id not in the store yields 500 (not found), both leaving
\* the store unchanged.
C12_PutReplies ==
  (op \in PutHandlers /\ Body.ok)
    => /\ (resp = [status |-> StatusOK, text |-> <<"ok">>, json |-> <<>>]) <=> (err = NoError)
       /\ err # NoError
            => resp = [status |-> StatusInternalServerError, text |-> <<err>>, json |-> <<>>]
       /\ (op = "PUT /articles" /\ Body.val.ID \in DOMAIN pre)
            => /\ err = ErrAlreadyExists
               /\ resp.status = StatusInternalServerError
               /\ Now = pre
       /\ (op = "PUT /articles/{id}" /\ req.id \notin DOMAIN pre)
            => /\ err = ErrArticleNotFound
               /\ resp.status = StatusInternalServerError
               /\ Now = pre

\* PUT /articles with a decodable body was answered 500 "article already exists"
\* although the body differs from the stored article.
C12_Witness ==
  /\ op = "PUT /articles"
  /\ Body.ok
  /\ Body.val.ID \in DOMAIN pre
  /\ Body.val # pre[Body.val.ID]
  /\ resp = [status |-> StatusInternalServerError, text |-> <<ErrAlreadyExists>>, json |-> <<>>]

---------------------------------------------------------------------------
(* Properties of the repository's insert, of the service as a pass-through,    *)
(* and frame properties                                                        *)

\* The Articles the last call returned, dereferenced.
Returns == [i \in DOMAIN ret |-> Deep(ret[i], heap)]

\* C13: the repository's InsertArticle never fails and unconditionally stores the
\* given article at its id: a new entry if the id was absent, the previous entry
\* overwritten if it was present; the entry at the id afterwards equals the given
\* article.
C13_InsertAlwaysStores ==
  (op = "repo.InsertArticle")
    => /\ err = NoError
       /\ Given.ID \in DOMAIN articles
       /\ Now[Given.ID] = Deep(Given, heap)
       /\ DOMAIN articles = DOMAIN pre \cup {Given.ID}

\* InsertArticle replaced a stored article by a different one.
C13_Witness ==
  /\ op = "repo.InsertArticle"
  /\ Given.ID \in DOMAIN pre
  /\ pre[Given.ID] # Deep(Given, heap)
  /\ Now[Given.ID] = Deep(Given, heap)

\* C14: the service's UpdateArticle, Article, DeleteArticle and Articles are
\* pass-throughs: each returns the result and error of the repository's
\* UpdateArticle, ArticleByID, DeleteArticle, AllArticles on the same repository
\* and argument, and leaves the repository as that method leaves it.
C14_ServicePassesThrough ==
  /\ (op = "svc.UpdateArticle")
       => \E r \in {inMemoryRepo_UpdateArticle(pre, Deep(Given, heap))} :
            err = r.err /\ Returns = r.val /\ Now = r.articles /\ calls = r.calls
  /\ (op = "svc.Article")
       => \E r \in {inMemoryRepo_ArticleByID(pre, req.id)} :
            err = r.err /\ Returns = r.val /\ Now = r.articles /\ calls = r.calls
  /\ (op = "svc.DeleteArticle")
       => \E r \in {inMemoryRepo_DeleteArticle(pre, req.id)} :
            err = r.err /\ Returns = r.val /\ Now = r.articles /\ calls = r.calls
  /\ (op = "svc.Articles")
       => \E r \in inMemoryRepo_AllArticles(pre) :
            err = r.err /\ Returns = r.val /\ Now = r.articles /\ calls = r.calls
  /\ articleSvc_Articles(articles) = inMemoryRepo_AllArticles(articles)

\* The service's DeleteArticle was called with an id that is not stored, on a
\* repository that holds an article.
C14_Witness ==
  /\ op = "svc.DeleteArticle"
  /\ req.id \notin DOMAIN pre
  /\ DOMAIN pre # {}
  /\ err = NoError

MutatingCalls ==
  {"repo.InsertArticle", "repo.UpdateArticle", "repo.DeleteArticle",
   "svc.AddArticle", "svc.UpdateArticle", "svc.DeleteArticle"}

\* C15: InsertArticle/AddArticle(a), UpdateArticle(a) and DeleteArticle(id),
\* whether they succeed or fail, leave the presence and the contents of every
\* entry whose key differs from a.ID (resp. id) as they were.
C15_OtherEntriesUntouched ==
  (op \in MutatingCalls)
    => \A k \in (DOMAIN pre \cup DOMAIN articles) \ {req.id} :
         /\ k \in DOMAIN pre
         /\ k \in DOMAIN articles
         /\ Now[k] = pre[k]

\* A stored id was deleted while another article, with tags, is stored.
C15_Witness ==
  /\ op = "repo.DeleteArticle"
  /\ req.id \in DOMAIN pre
  /\ \E k \in DOMAIN articles : k # req.id /\ Now[k].Tags # <<>>

ReadCalls ==
  {"repo.ArticleByID", "svc.Article", "repo.AllArticles", "svc.Articles", "GET /articles"}

\* C16: ArticleByID/Article (found or not), AllArticles/Articles and the GET
\* /articles handler leave the repository map as it was, so a second read right
\* after returns the same article (resp. the same set of articles).
C16_ReadsChangeNothing ==
  (op \in ReadCalls)
    => /\ Now = pre
       /\ (op \in {"repo.ArticleByID", "svc.Article"})
            => \E r \in {inMemoryRepo_ArticleByID(articles, req.id)} :
                 r.err = err /\ [i \in DOMAIN r.val |-> Deep(r.val[i], heap)] = Returns
       /\ (op \in {"repo.AllArticles", "svc.Articles"})
            => \A r \in inMemoryRepo_AllArticles(articles) :
                 /\ r.err = err
                 /\ Len(r.val) = Len(ret)
                 /\ {Deep(r.val[i], heap) : i \in DOMAIN r.val}
                      = {Returns[i] : i \in DOMAIN ret}
       /\ (op = "GET /articles")
            => \A r \in articlesHttpTransport_articles(articles, heap) :
                 /\ r.resp.status = resp.status
                 /\ Len(r.resp.json) = Len(resp.json)
                 /\ {r.resp.json[i] : i \in DOMAIN r.resp.json}
                      = {resp.json[i] : i \in DOMAIN resp.json}

\* GET /articles listed an article under every id.
C16_Witness ==
  /\ op = "GET /articles"
  /\ resp.status = StatusOK
  /\ Len(resp.json) = NumIds
  /\ \E i \in DOMAIN resp.json : resp.json[i].Tags # <<>>

=============================================================================
